---- MODULE Spec2Model ----
(***************************************************************************)
(* Model of docfill's DOCX placeholder substitution (src/docx_processor.py) *)
(*                                                                         *)
(* A text is a sequence of one-character strings.  A run is a record       *)
(* [text, fmt]; a paragraph is a sequence of runs; paragraph.text is the   *)
(* concatenation of the run texts.  An optional attribute is <<>> (None)   *)
(* or <<v>> (the value v).  The mapping `data` is a sequence of            *)
(* [k, v] records with distinct keys: a Python dict in iteration order.    *)
(***************************************************************************)
EXTENDS Naturals, Sequences, FiniteSets, TLC

VARIABLES runs, data, pc, warnings, placeholders, remaining,
          runs0, mid, pre, data2, template, doc, found

\* process_directory: the input directory's content, the two flags, file_iter,
\* the loop index, outputs, and the outcome of each attempt
VARIABLES listing, recursive, add_filled_suffix, files, file_index, outputs,
          attempts

batchVars == <<listing, recursive, add_filled_suffix, files, file_index,
               outputs, attempts>>

\* fill_template: the paragraphs still to process, those processed, and the saved file
VARIABLES todo, visited, output

fillVars == <<todo, visited, output>>

\* ConfigReader: the parsed configuration and the flattened mapping
VARIABLES config, flat

flattenVars == <<config, flat>>

\* docfill main: the command line, the loop index, the files written, the exit code
VARIABLES args, path_index, written, exit_code

mainVars == <<args, path_index, written, exit_code>>

\* _replace_in_paragraph: the scans and passes executed so far, in order
VARIABLES steps

traceVars == <<steps>>

\* sequential fills with one mapping: the templates still to fill, the filled ones, and the mapping as it was handed over
VARIABLES queue, results, mapping0

shareVars == <<queue, results, mapping0>>

\* main: the template paths whose processing began with what became of them, the outputs collected, and the list handed to the PDF conversion
VARIABLES started, all_output_files, converted

runVars == <<started, all_output_files, converted>>

\* the two lists of the check-placeholders report
VARIABLES missing, unused

reportVars == <<missing, unused>>

vars == <<runs, data, pc, warnings, placeholders, remaining,
          runs0, mid, pre, data2, template, doc, found,
          batchVars,
          fillVars,
          flattenVars,
          mainVars,
          traceVars,
          shareVars,
          runVars,
          reportVars>>

\* process_directory has not been called
BatchIdle ==
    /\ listing = <<>>
    /\ recursive = FALSE
    /\ add_filled_suffix = TRUE
    /\ files = <<>>
    /\ file_index = 0
    /\ outputs = <<>>
    /\ attempts = <<>>

\* fill_template has not been called
FillIdle ==
    /\ todo = <<>>
    /\ visited = <<>>
    /\ output = <<>>

\* no configuration has been read
FlattenIdle ==
    /\ config = <<>>
    /\ flat = <<>>

\* docfill main has not been called
MainIdle ==
    /\ args = <<>>
    /\ path_index = 0
    /\ written = <<>>
    /\ exit_code = <<>>

\* no sequence of fills is under way
ShareIdle ==
    /\ queue = <<>>
    /\ results = <<>>
    /\ mapping0 = <<>>

\* main has not processed anything
RunIdle ==
    /\ started = <<>>
    /\ all_output_files = <<>>
    /\ converted = <<>>

\* no report has been printed
ReportIdle ==
    /\ missing = {}
    /\ unused = {}

(***************************************************************************)
(* Bounds of the model                                                     *)
(***************************************************************************)
MaxRuns == 3
MaxKeys == 2

(***************************************************************************)
(* Texts                                                                   *)
(***************************************************************************)
None == <<>>

Some(v) == <<v>>

\* str.lower() on the characters the model uses
LowerChar(c) ==
    CASE c = "A" -> "a"
      [] c = "B" -> "b"
      [] c = "T" -> "t"
      [] c = "X" -> "x"
      [] OTHER -> c

lower(s) == [i \in DOMAIN s |-> LowerChar(s[i])]

\* f"{{{{{placeholder}}}}}"
placeholder_with_braces(placeholder) == <<"{", "{">> \o placeholder \o <<"}", "}">>

\* the greedy [^}]+ of the pattern: the first index >= j that holds a "}" (or Len+1)
RECURSIVE SkipNonClose(_, _)
SkipNonClose(t, j) ==
    IF j <= Len(t) /\ t[j] # "}" THEN SkipNonClose(t, j + 1) ELSE j

\* faulty variant of MatchAt: the name may be empty, as with [^}]* in the pattern
MatchAt_empty_name(t, i) ==
    LET k == SkipNonClose(t, i + 2)
    IN  IF /\ i + 1 <= Len(t)
           /\ t[i] = "{"
           /\ t[i + 1] = "{"
           /\ k >= i + 2
           /\ k + 1 <= Len(t)
           /\ t[k] = "}"
           /\ t[k + 1] = "}"
        THEN k + 2
        ELSE 0

\* a match of \{\{([^}]+)\}\} starting at i: the index after the match, or 0
MatchAt(t, i) ==
    LET k == SkipNonClose(t, i + 2)
    IN  IF /\ i + 1 <= Len(t)
           /\ t[i] = "{"
           /\ t[i + 1] = "{"
           /\ k > i + 2
           /\ k + 1 <= Len(t)
           /\ t[k] = "}"
           /\ t[k + 1] = "}"
        THEN k + 2
        ELSE 0

RECURSIVE FindAllFrom(_, _)
FindAllFrom(t, i) ==
    IF i > Len(t)
    THEN <<>>
    ELSE LET e == MatchAt(t, i)
         IN  IF e # 0
             THEN <<SubSeq(t, i + 2, e - 3)>> \o FindAllFrom(t, e)
             ELSE FindAllFrom(t, i + 1)

\* re.findall(r'\{\{([^}]+)\}\}', t): the names, left to right, non-overlapping
findall(t) == FindAllFrom(t, 1)

StartsAt(s, old, i) ==
    /\ i + Len(old) - 1 <= Len(s)
    /\ SubSeq(s, i, i + Len(old) - 1) = old

RECURSIVE ReplaceFrom(_, _, _, _)
ReplaceFrom(s, old, new, i) ==
    IF i > Len(s)
    THEN <<>>
    ELSE IF StartsAt(s, old, i)
         THEN new \o ReplaceFrom(s, old, new, i + Len(old))
         ELSE <<s[i]>> \o ReplaceFrom(s, old, new, i + 1)

\* s.replace(old, new) for a non-empty old: every non-overlapping occurrence
str_replace(s, old, new) == ReplaceFrom(s, old, new, 1)

(***************************************************************************)
(* The mapping                                                             *)
(***************************************************************************)
\* placeholder in data
HasKey(d, name) == \E i \in DOMAIN d : d[i].k = name

\* data[name]
Lookup(d, name) == d[CHOOSE i \in DOMAIN d : d[i].k = name].v

\* placeholder.lower() in [k.lower() for k in data.keys()]
HasKeyIgnoreCase(d, name) == \E i \in DOMAIN d : lower(d[i].k) = lower(name)

\* faulty variant: the last key equal ignoring case instead of the first
actual_key_last(d, name) ==
    LET last == CHOOSE i \in DOMAIN d :
                   /\ lower(d[i].k) = lower(name)
                   /\ \A j \in (i + 1)..Len(d) : lower(d[j].k) # lower(name)
    IN  d[last].k

\* next(k for k in data.keys() if k.lower() == placeholder.lower())
actual_key(d, name) ==
    LET first == CHOOSE i \in DOMAIN d :
                    /\ lower(d[i].k) = lower(name)
                    /\ \A j \in 1..(i - 1) : lower(d[j].k) # lower(name)
    IN  d[first].k

(***************************************************************************)
(* Paragraphs                                                              *)
(***************************************************************************)
RECURSIVE paragraph_text(_)
paragraph_text(rs) ==
    IF rs = <<>> THEN <<>> ELSE Head(rs).text \o paragraph_text(Tail(rs))

(***************************************************************************)
(* Run formatting                                                          *)
(***************************************************************************)
NoFormat ==
    [bold |-> None, italic |-> None, underline |-> None,
     font_name |-> None, font_size |-> None, font_color |-> None]

\* truth value of an optional attribute in `if x:` (None, "", 0 and () are falsy)
TruthyName(x) == x # None /\ x[1] # ""

TruthySize(x) == x # None /\ x[1] # 0

TruthyColor(x) == x # None /\ x[1] # <<>>

\* the dictionary appended to run_formats for one run
run_format(fmt) ==
    [bold |-> fmt.bold, italic |-> fmt.italic, underline |-> fmt.underline,
     font_name |-> fmt.font_name, font_size |-> fmt.font_size,
     font_color |-> IF TruthyColor(fmt.font_color) THEN fmt.font_color ELSE None]

\* faulty variant of first_run_format: the first run that has text is taken
first_run_format_with_text(rs) ==
    IF \E i \in DOMAIN rs : rs[i].text # <<>>
    THEN run_format(rs[CHOOSE i \in DOMAIN rs :
                          /\ rs[i].text # <<>>
                          /\ \A j \in 1..(i - 1) : rs[j].text = <<>>].fmt)
    ELSE NoFormat

\* run_formats[0] if run_formats else {}
first_run_format(rs) == IF rs # <<>> THEN run_format(rs[1].fmt) ELSE NoFormat

\* the formatting of the run made by paragraph.add_run, after the six guarded assignments
new_run_format(f) ==
    [bold       |-> IF f.bold # None THEN f.bold ELSE None,
     italic     |-> IF f.italic # None THEN f.italic ELSE None,
     underline  |-> IF f.underline # None THEN f.underline ELSE None,
     font_name  |-> IF TruthyName(f.font_name) THEN f.font_name ELSE None,
     font_size  |-> IF TruthySize(f.font_size) THEN f.font_size ELSE None,
     font_color |-> IF TruthyColor(f.font_color) THEN f.font_color ELSE None]

(***************************************************************************)
(* _replace_in_paragraph: the simple (run-local) pass                      *)
(***************************************************************************)
\* neither branch of the key lookup applies
simple_unresolved(d, placeholder) ==
    ~HasKey(d, placeholder) /\ ~HasKeyIgnoreCase(d, placeholder)

simple_replacement(d, placeholder) ==
    IF HasKey(d, placeholder)
    THEN Lookup(d, placeholder)
    ELSE IF HasKeyIgnoreCase(d, placeholder)
         THEN Lookup(d, actual_key(d, placeholder))
         ELSE placeholder_with_braces(placeholder)

\* the loop over run_placeholders: one str.replace per found name, in order
RECURSIVE simple_new_text(_, _, _)
simple_new_text(new_text, run_placeholders, d) ==
    IF run_placeholders = <<>>
    THEN new_text
    ELSE simple_new_text(
             str_replace(new_text,
                         placeholder_with_braces(Head(run_placeholders)),
                         simple_replacement(d, Head(run_placeholders))),
             Tail(run_placeholders), d)

\* faulty variant of simple_run: the loop leaves after the first placeholder of the run
simple_run_first_only(run, d) ==
    LET found_here == findall(run.text)
        new_text == simple_new_text(run.text,
                        IF found_here = <<>> THEN <<>> ELSE <<Head(found_here)>>, d)
    IN  IF new_text # run.text THEN [run EXCEPT !.text = new_text] ELSE run

\* one run after the simple pass; run.text is assigned only when the text changed
simple_run(run, d) ==
    LET new_text == simple_new_text(run.text, findall(run.text), d)
    IN  IF new_text # run.text THEN [run EXCEPT !.text = new_text] ELSE run

simple_pass(rs, d) == [i \in DOMAIN rs |-> simple_run(rs[i], d)]

\* the warnings printed by the simple pass, in run order
RECURSIVE simple_warnings(_, _)
simple_warnings(rs, d) ==
    IF rs = <<>>
    THEN <<>>
    ELSE SelectSeq(findall(Head(rs).text), LAMBDA p : simple_unresolved(d, p))
             \o simple_warnings(Tail(rs), d)

(***************************************************************************)
(* _replace_across_runs: the spanning pass                                 *)
(***************************************************************************)
across_unresolved(d, placeholder) ==
    ~HasKey(d, placeholder) /\ ~HasKeyIgnoreCase(d, placeholder)

\* faulty variant of across_replacement: only the exact key is looked up
across_replacement_exact_only(d, placeholder) ==
    IF HasKey(d, placeholder)
    THEN Lookup(d, placeholder)
    ELSE placeholder_with_braces(placeholder)

across_replacement(d, placeholder) ==
    IF HasKey(d, placeholder)
    THEN Lookup(d, placeholder)
    ELSE IF HasKeyIgnoreCase(d, placeholder)
         THEN Lookup(d, actual_key(d, placeholder))
         ELSE placeholder_with_braces(placeholder)

RECURSIVE across_new_text(_, _, _)
across_new_text(new_text, phs, d) ==
    IF phs = <<>>
    THEN new_text
    ELSE across_new_text(
             str_replace(new_text,
                         placeholder_with_braces(Head(phs)),
                         across_replacement(d, Head(phs))),
             Tail(phs), d)

\* faulty variant of replace_across_runs: the new text is written into the
\* first run and the other runs are emptied, none is removed
replace_across_runs_in_place(rs, phs, d) ==
    LET full_text == paragraph_text(rs)
        new_text  == across_new_text(full_text, phs, d)
    IN  IF new_text # full_text
        THEN [i \in DOMAIN rs |->
                 [rs[i] EXCEPT !.text = IF i = 1 THEN new_text ELSE <<>>]]
        ELSE rs

\* faulty variant of replace_across_runs: the paragraph is rebuilt even when
\* the substitution left the full text unchanged
replace_across_runs_always_rebuild(rs, phs, d) ==
    LET full_text == paragraph_text(rs)
        new_text  == across_new_text(full_text, phs, d)
    IN  <<[text |-> new_text, fmt |-> new_run_format(first_run_format(rs))]>>

\* faulty variant of replace_across_runs: when the substitution leaves the
\* full text unchanged the runs keep their texts but all take the first
\* run's formatting
replace_across_runs_reformat(rs, phs, d) ==
    LET full_text == paragraph_text(rs)
        new_text  == across_new_text(full_text, phs, d)
    IN  IF new_text # full_text
        THEN <<[text |-> new_text, fmt |-> new_run_format(first_run_format(rs))]>>
        ELSE [i \in DOMAIN rs |->
                 [rs[i] EXCEPT !.fmt = new_run_format(first_run_format(rs))]]

\* the paragraph's runs after _replace_across_runs(paragraph, phs, data)
replace_across_runs(rs, phs, d) ==
    LET full_text == paragraph_text(rs)
        new_text  == across_new_text(full_text, phs, d)
    IN  IF new_text # full_text
        THEN <<[text |-> new_text, fmt |-> new_run_format(first_run_format(rs))]>>
        ELSE rs

\* faulty variant of across_warnings: the spanning pass prints nothing
across_warnings_silent(phs, d) == <<>>

across_warnings(phs, d) == SelectSeq(phs, LAMBDA p : across_unresolved(d, p))

(***************************************************************************)
(* _replace_in_paragraph as a whole: [runs, warnings] after the call       *)
(***************************************************************************)
replace_in_paragraph(rs, d) ==
    IF findall(paragraph_text(rs)) = <<>>
    THEN [runs |-> rs, warnings |-> <<>>]
    ELSE LET after == simple_pass(rs, d)
             remaining_placeholders == findall(paragraph_text(after))
         IN  IF remaining_placeholders # <<>>
             THEN [runs |-> replace_across_runs(after, remaining_placeholders, d),
                   warnings |-> simple_warnings(rs, d)
                                    \o across_warnings(remaining_placeholders, d)]
             ELSE [runs |-> after, warnings |-> simple_warnings(rs, d)]

(***************************************************************************)
(* Inputs: run texts, run formattings and mappings the checks draw from    *)
(***************************************************************************)
\* run texts: empty, plain, whole placeholders, and the halves of split ones
Pieces ==
    { <<>>,
      <<"x">>,
      <<"{">>,
      <<"{", "{", "a", "}", "}">>,
      <<"{", "{", "b", "}", "}">>,
      <<"{", "{", "b", "}", "}", "{", "{", "a", "}", "}">>,
      <<"{", "{", "b", "}", "}", "{", "{", "a">>,
      <<"{", "{", "a">>,
      <<"}", "}">> }

\* formattings: nothing set; everything set; explicit False, empty name, zero size
Formats ==
    << NoFormat,
       [bold |-> Some(TRUE), italic |-> Some(FALSE), underline |-> None,
        font_name |-> Some("Arial"), font_size |-> Some(12),
        font_color |-> Some(<<255, 0, 0>>)],
       [bold |-> Some(FALSE), italic |-> None, underline |-> Some(TRUE),
        font_name |-> Some(""), font_size |-> Some(0),
        font_color |-> None] >>

\* run i of a paragraph takes its formatting from Formats, starting at offset s
FormatOf(i, s) == Formats[((i + s) % Len(Formats)) + 1]

Paragraphs ==
    UNION { { [i \in 1..n |-> [text |-> t[i], fmt |-> FormatOf(i, s)]] :
                t \in [1..n -> Pieces], s \in 1..Len(Formats) } :
            n \in 0..MaxRuns }

Keys == { <<"a">>, <<"A">>, <<"b">> }

Values == { <<>>, <<"X">>, <<"{", "{", "a", "}", "}">> }

\* dicts of at most MaxKeys entries, in every insertion order
Mappings ==
    UNION { { m \in [1..n -> [k : Keys, v : Values]] :
                \A i, j \in 1..n : i # j => m[i].k # m[j].k } :
            n \in 0..MaxKeys }

(***************************************************************************)
(* The engine on one paragraph, a step per pass                            *)
(***************************************************************************)
Init ==
    /\ runs \in Paragraphs
    /\ data \in Mappings
    /\ pc = "entry"
    /\ warnings = <<>>
    /\ placeholders = <<>>
    /\ remaining = <<>>
    /\ runs0 = runs
    /\ mid = <<>>
    /\ pre = [runs |-> <<>>, warnings |-> <<>>]
    /\ data2 = <<>>
    /\ template = <<>>
    /\ doc = <<>>
    /\ found = {}
    /\ BatchIdle
    /\ FillIdle
    /\ steps = <<>>
    /\ FlattenIdle
    /\ MainIdle
    /\ ShareIdle
    /\ RunIdle
    /\ ReportIdle

\* lines 63-67: scan the full text, return when it holds no placeholder
Enter ==
    /\ pc = "entry"
    /\ \E scanned \in {findall(paragraph_text(runs))} :
          /\ placeholders' = scanned
          /\ pc' = IF scanned = <<>> THEN "done" ELSE "simple"
    /\ steps' = Append(steps, "scan")
    /\ UNCHANGED <<runs, data, warnings, remaining, runs0, mid, pre, data2, template, doc, found, batchVars, fillVars, flattenVars, mainVars, shareVars, runVars, reportVars>>

\* faulty variant of SimplePass: the spanning pass follows even when no
\* placeholder remains
SimplePass_always_spanning ==
    /\ pc = "simple"
    /\ \E after \in {simple_pass(runs, data)} :
          \E rescan \in {findall(paragraph_text(after))} :
             /\ runs' = after
             /\ mid' = after
             /\ remaining' = rescan
             /\ pc' = "spanning"
    /\ warnings' = warnings \o simple_warnings(runs, data)
    /\ steps' = steps \o <<"simple", "rescan">>
    /\ UNCHANGED <<data, placeholders, runs0, pre, data2, template, doc, found, batchVars, fillVars, flattenVars, mainVars, shareVars, runVars, reportVars>>

\* lines 69-105: the run-local pass, then the scan of the recomputed full text
SimplePass ==
    /\ pc = "simple"
    /\ \E after \in {simple_pass(runs, data)} :
          \E rescan \in {findall(paragraph_text(after))} :
             /\ runs' = after
             /\ mid' = after
             /\ remaining' = rescan
             /\ pc' = IF rescan = <<>> THEN "done" ELSE "spanning"
    /\ warnings' = warnings \o simple_warnings(runs, data)
    /\ steps' = steps \o <<"simple", "rescan">>
    /\ UNCHANGED <<data, placeholders, runs0, pre, data2, template, doc, found, batchVars, fillVars, flattenVars, mainVars, shareVars, runVars, reportVars>>

\* lines 105-107 and 109-176: the spanning pass over the remaining placeholders
SpanningPass ==
    /\ pc = "spanning"
    /\ runs' = replace_across_runs(runs, remaining, data)
    /\ warnings' = warnings \o across_warnings(remaining, data)
    /\ pc' = "done"
    /\ steps' = Append(steps, "spanning")
    /\ UNCHANGED <<data, placeholders, remaining, runs0, mid, pre, data2, template, doc, found, batchVars, fillVars, flattenVars, mainVars, shareVars, runVars, reportVars>>

\* the engine applied again to the filled paragraph, same mapping or none
Rerun ==
    /\ pc = "done"
    /\ \E d \in {data, <<>>} :
          /\ data2' = d
          /\ pre' = [runs |-> runs, warnings |-> warnings]
          /\ runs' = replace_in_paragraph(runs, d).runs
          /\ warnings' = warnings \o replace_in_paragraph(runs, d).warnings
    /\ pc' = "rerun"
    /\ UNCHANGED <<data, placeholders, remaining, runs0, mid, template, doc, found, batchVars, fillVars, flattenVars, mainVars, traceVars, shareVars, runVars, reportVars>>

Next == Enter \/ SimplePass \/ SpanningPass \/ Rerun

Spec == Init /\ [][Next]_vars

\* the control point of the call moves on: the projection on pc of the steps
\* Enter, SimplePass and SpanningPass, enabled exactly where they are
Advance ==
    /\ pc \in {"entry", "simple", "spanning"}
    /\ pc' \in {"simple", "spanning", "done"}
    /\ pc' # pc

\* the call runs to its end: straight-line code without a loop over the
\* passes, so a step that can be taken is taken
SpecLive == Init /\ [][Next]_vars /\ WF_pc(Advance)

(***************************************************************************)
(* Vocabulary of the properties: tokens, their places, resolution          *)
(***************************************************************************)
\* t[i..e-1] is {{name}} with a non-empty name free of "}"
IsMatch(t, i, e) ==
    /\ i >= 1
    /\ e - i >= 5
    /\ e - 1 <= Len(t)
    /\ t[i] = "{" /\ t[i + 1] = "{"
    /\ t[e - 2] = "}" /\ t[e - 1] = "}"
    /\ \A j \in (i + 2)..(e - 3) : t[j] # "}"

MatchEnd(t, i) == CHOOSE e \in (i + 5)..(Len(t) + 1) : IsMatch(t, i, e)

\* the tokens of a text, left to right and non-overlapping: [s, e) and the name
RECURSIVE TokensFrom(_, _)
TokensFrom(t, i) ==
    IF i > Len(t)
    THEN <<>>
    ELSE IF \E e \in (i + 5)..(Len(t) + 1) : IsMatch(t, i, e)
         THEN <<[s |-> i, e |-> MatchEnd(t, i),
                 name |-> SubSeq(t, i + 2, MatchEnd(t, i) - 3)]>>
                  \o TokensFrom(t, MatchEnd(t, i))
         ELSE TokensFrom(t, i + 1)

Tokens(t) == TokensFrom(t, 1)

TokenSet(t) == { Tokens(t)[n] : n \in DOMAIN Tokens(t) }

Names(t) == { tok.name : tok \in TokenSet(t) }

HasToken(t) == \E i \in 1..Len(t) : \E e \in (i + 5)..(Len(t) + 1) : IsMatch(t, i, e)

\* the first character of run k within the full text of rs
RunStart(rs, k) == Len(paragraph_text(SubSeq(rs, 1, k - 1))) + 1

InRun(rs, tok, k) ==
    /\ RunStart(rs, k) <= tok.s
    /\ tok.e <= RunStart(rs, k) + Len(rs[k].text)

InOneRun(rs, tok) == \E k \in DOMAIN rs : InRun(rs, tok, k)

SpanningTokens(rs) == { tok \in TokenSet(paragraph_text(rs)) : ~InOneRun(rs, tok) }

KeysOf(d) == { d[i].k : i \in DOMAIN d }

KeysIgnoringCase(d, name) == { k \in KeysOf(d) : lower(k) = lower(name) }

Resolvable(d, name) == KeysIgnoringCase(d, name) # {}

ValueOf(d, key) == d[CHOOSE i \in DOMAIN d : d[i].k = key].v

\* the value a name stands for: the exact key's, else that of the first key
\* equal to it ignoring case
Resolved(d, name) ==
    IF name \in KeysOf(d)
    THEN ValueOf(d, name)
    ELSE LET i == CHOOSE n \in DOMAIN d :
                     /\ lower(d[n].k) = lower(name)
                     /\ \A m \in 1..(n - 1) : lower(d[m].k) # lower(name)
         IN  d[i].v

Literal(name) == <<"{", "{">> \o name \o <<"}", "}">>

NoBraces(t) == \A i \in DOMAIN t : t[i] \notin {"{", "}"}

\* a text with every token span replaced by its value, unresolved tokens kept
RECURSIVE SubstFrom(_, _, _)
SubstFrom(t, d, i) ==
    IF i > Len(t)
    THEN <<>>
    ELSE IF \E e \in (i + 5)..(Len(t) + 1) : IsMatch(t, i, e)
         THEN LET e == MatchEnd(t, i)
                  name == SubSeq(t, i + 2, e - 3)
              IN  (IF Resolvable(d, name) THEN Resolved(d, name) ELSE Literal(name))
                      \o SubstFrom(t, d, e)
         ELSE <<t[i]>> \o SubstFrom(t, d, i + 1)

Subst(t, d) == SubstFrom(t, d, 1)

IsSubstring(sub, t) ==
    \E i \in 1..(Len(t) - Len(sub) + 1) : SubSeq(t, i, i + Len(sub) - 1) = sub

SameFormats(rs, qs) ==
    /\ Len(rs) = Len(qs)
    /\ \A i \in DOMAIN rs : rs[i].fmt = qs[i].fmt

(***************************************************************************)
(* C1  Simple case                                                         *)
(***************************************************************************)
\* every token of the full text lies inside one run and resolves to a
\* value without braces
SimpleCase(rs, d) ==
    \A tok \in TokenSet(paragraph_text(rs)) :
        /\ InOneRun(rs, tok)
        /\ Resolvable(d, tok.name)
        /\ NoBraces(Resolved(d, tok.name))

PlainNames(rs) == \A n \in Names(paragraph_text(rs)) : NoBraces(n)

PlainValues(rs, d) ==
    \A n \in Names(paragraph_text(rs)) : Resolvable(d, n) => NoBraces(Resolved(d, n))

Plain(rs, d) == PlainNames(rs) /\ PlainValues(rs, d)

\* in plain inputs the final full text is the original with every token
\* replaced by its value
TextIsSubst ==
    (pc = "done" /\ Plain(runs0, data)) =>
        paragraph_text(runs) = Subst(paragraph_text(runs0), data)

(***************************************************************************)
(* C2  Cross-run collapse                                                  *)
(***************************************************************************)
SplitResolvable(rs, d) == \E tok \in SpanningTokens(rs) : Resolvable(d, tok.name)

Collapsed == pc = "done" /\ remaining # <<>> /\ runs # mid

\* the first run that contributes a character to the full text
FirstTextRun(rs) ==
    rs[CHOOSE i \in DOMAIN rs :
          /\ rs[i].text # <<>>
          /\ \A j \in 1..(i - 1) : rs[j].text = <<>>]

\* C3 as stated: the collapsed run carries, attribute by attribute, the
\* formatting of the run that produced the first character of the full text.
C3_AsStated ==
    Collapsed => /\ Len(runs) = 1
                 /\ runs[1].fmt = FirstTextRun(mid).fmt

\* what the rebuilt run keeps of a formatting: bold, italic and underline as
\* they are; a font name, size or colour unless it is absent, "" or 0
Kept(f) ==
    [bold |-> f.bold, italic |-> f.italic, underline |-> f.underline,
     font_name |-> IF f.font_name = Some("") THEN None ELSE f.font_name,
     font_size |-> IF f.font_size = Some(0) THEN None ELSE f.font_size,
     font_color |-> f.font_color]

\* C3: the collapsed run carries the formatting of the paragraph's first run,
\* whether or not that run has text: absent attributes stay absent, bold,
\* italic and underline keep their explicit value (false included), and a
\* font name, size or colour is kept unless it is empty or zero.
C3_FirstRunFormat ==
    Collapsed => /\ Len(runs) = 1
                 /\ runs[1].fmt = Kept(runs0[1].fmt)

\* a collapse whose first run is empty and explicitly not bold
C3_Witness ==
    /\ Collapsed
    /\ Len(runs0) = 3
    /\ runs0[1].text = <<>>
    /\ runs0[1].fmt.bold = Some(FALSE)
    /\ runs[1].fmt.bold = Some(FALSE)
    /\ runs0[2].fmt # runs0[1].fmt

(***************************************************************************)
(* C4  Unresolved placeholders                                             *)
(***************************************************************************)
Occurrences(sub, t) ==
    Cardinality({ i \in 1..(Len(t) - Len(sub) + 1) : SubSeq(t, i, i + Len(sub) - 1) = sub })

Warned(name) == \E i \in DOMAIN warnings : warnings[i] = name

UnresolvedNames(rs, d) == { n \in Names(paragraph_text(rs)) : ~Resolvable(d, n) }

Fallback(d, name) ==
    /\ name \notin KeysOf(d)
    /\ Cardinality(KeysIgnoringCase(d, name)) = 1

FallbackTokens(rs, d) ==
    { tok \in TokenSet(paragraph_text(rs)) : Fallback(d, tok.name) }

EndsWith(t, tail) ==
    /\ Len(tail) <= Len(t)
    /\ SubSeq(t, Len(t) - Len(tail) + 1, Len(t)) = tail

LastToken(t) == Tokens(t)[Len(Tokens(t))]

NestedNames(rs, d) ==
    { n \in Names(paragraph_text(rs)) :
        /\ Resolvable(d, n)
        /\ \E x \in Names(Resolved(d, n)) : x \in KeysOf(d) }

\* C6: substitution is single-pass: when no placeholder name holds a brace,
\* a value that itself contains {{x}}, x a key of the mapping, appears
\* verbatim in the final full text; inserted text is never substituted again.
C6_NoReExpansion ==
    (pc = "done" /\ PlainNames(runs0)) =>
        \A n \in NestedNames(runs0, data) :
            IsSubstring(Resolved(data, n), paragraph_text(runs))

(***************************************************************************)
(* C7  Idempotence on fully resolved output                                *)
(***************************************************************************)
\* C7: when the filled paragraph holds no {{...}} token, running the engine
\* on it again, with the same mapping or an empty one, changes no run, no
\* formatting, prints no warning, and the scan of the result is empty.
C7_Idempotent ==
    (pc = "rerun" /\ ~HasToken(paragraph_text(pre.runs))) =>
        /\ runs = pre.runs
        /\ warnings = pre.warnings
        /\ findall(paragraph_text(runs)) = <<>>

\* a paragraph that a fill changed and resolved completely, run again with
\* the same non-empty mapping
C7_Witness ==
    /\ pc = "rerun"
    /\ ~HasToken(paragraph_text(pre.runs))
    /\ HasToken(paragraph_text(runs0))
    /\ Len(runs0) >= 2
    /\ data2 = data
    /\ data # <<>>
    /\ runs = pre.runs

(***************************************************************************)
(* C8  Run invariant                                                       *)
(***************************************************************************)
\* C8: after the engine has substituted in a paragraph, the run texts
\* concatenate to the visible text and no run is empty.
C8_NoEmptyRun ==
    (pc = "done" /\ placeholders # <<>>) =>
        \A i \in DOMAIN runs : runs[i].text # <<>>

RemainingNames == { remaining[i] : i \in DOMAIN remaining }

MaxBody == 2
MaxCells == 2

\* the identifier pattern [a-zA-Z_][a-zA-Z0-9_.]*
IdentStart ==
    { "a", "b", "c", "d", "e", "f", "g", "h", "i", "j", "k", "l", "m",
      "n", "o", "p", "q", "r", "s", "t", "u", "v", "w", "x", "y", "z",
      "A", "B", "C", "D", "E", "F", "G", "H", "I", "J", "K", "L", "M",
      "N", "O", "P", "Q", "R", "S", "T", "U", "V", "W", "X", "Y", "Z",
      "_" }

IdentRest == IdentStart \cup { "0", "1", "2", "3", "4", "5", "6", "7", "8", "9", "." }

StrictName(n) ==
    /\ n # <<>>
    /\ n[1] \in IdentStart
    /\ \A i \in 2..Len(n) : n[i] \in IdentRest

\* faulty variant of scan_paragraphs: only identifier names are collected
RECURSIVE scan_paragraphs_strict(_)
scan_paragraphs_strict(ps) ==
    IF ps = <<>>
    THEN {}
    ELSE LET names == findall(paragraph_text(Head(ps)))
         IN  { n \in { names[i] : i \in DOMAIN names } : StrictName(n) }
                 \cup scan_paragraphs_strict(Tail(ps))

\* the names found in each paragraph of ps: placeholders.update(re.findall(..))
RECURSIVE scan_paragraphs(_)
scan_paragraphs(ps) ==
    IF ps = <<>>
    THEN {}
    ELSE LET names == findall(paragraph_text(Head(ps)))
         IN  { names[i] : i \in DOMAIN names } \cup scan_paragraphs(Tail(ps))

RECURSIVE scan_cells(_)
scan_cells(cells) ==
    IF cells = <<>>
    THEN {}
    ELSE scan_paragraphs(Head(cells).paragraphs) \cup scan_cells(Tail(cells))

RECURSIVE scan_rows(_)
scan_rows(rows) ==
    IF rows = <<>>
    THEN {}
    ELSE scan_cells(Head(rows).cells) \cup scan_rows(Tail(rows))

RECURSIVE scan_tables(_)
scan_tables(tables) ==
    IF tables = <<>>
    THEN {}
    ELSE scan_rows(Head(tables).rows) \cup scan_tables(Tail(tables))

\* faulty variant of scan_sections: the footers are not scanned
RECURSIVE scan_sections_headers_only(_)
scan_sections_headers_only(sections) ==
    IF sections = <<>>
    THEN {}
    ELSE LET section == Head(sections)
         IN  (IF section.header # None
              THEN scan_paragraphs(section.header[1].paragraphs) ELSE {})
             \cup scan_sections_headers_only(Tail(sections))

\* a header or footer is None or <<part>>; `if section.header:` skips None
RECURSIVE scan_sections(_)
scan_sections(sections) ==
    IF sections = <<>>
    THEN {}
    ELSE LET section == Head(sections)
         IN  (IF section.header # None
              THEN scan_paragraphs(section.header[1].paragraphs) ELSE {})
             \cup
             (IF section.footer # None
              THEN scan_paragraphs(section.footer[1].paragraphs) ELSE {})
             \cup scan_sections(Tail(sections))

\* get_placeholders on the loaded document d
get_placeholders(d) ==
    scan_paragraphs(d.paragraphs) \cup scan_tables(d.tables)
        \cup scan_sections(d.sections)

Run(t, f) == [text |-> t, fmt |-> Formats[f]]

\* paragraphs of templates: one run, a placeholder split over two runs, two
\* placeholders in a run, a stray brace before a placeholder, a name that
\* is no identifier, a dotted name and its first part, an empty run before
\* plain text, no run at all
DocParagraphs ==
    { <<Run(<<"{", "{", "a", "}", "}">>, 2)>>,
      <<Run(<<"{", "{", "a">>, 2), Run(<<"}", "}">>, 3)>>,
      <<Run(<<"{", "{", "b", "}", "}", "{", "{", "a", "}", "}">>, 1)>>,
      <<Run(<<"{">>, 1), Run(<<"{", "{", "b", "}", "}">>, 2)>>,
      <<Run(<<"{", "{", "1", "x", "}", "}">>, 2)>>,
      <<Run(<<"{", "{", "c", ".", "n", "}", "}">>, 1)>>,
      <<Run(<<"{", "{", "c", "}", "}">>, 3)>>,
      <<Run(<<>>, 1), Run(<<"x">>, 3)>>,
      <<>> }

CellParagraphs ==
    { <<Run(<<"{", "{", "b">>, 1), Run(<<"}", "}">>, 1)>>,
      <<Run(<<"{", "{", "a", "}", "}">>, 3)>>,
      <<Run(<<"x">>, 2)>> }

SeqsUpTo(S, n) == UNION { [1..m -> S] : m \in 0..n }

Cells == { [paragraphs |-> <<p>>] : p \in CellParagraphs }

Rows == { [cells |-> cs] : cs \in SeqsUpTo(Cells, MaxCells) \ {<<>>} }

Tables == { [rows |-> <<r>>] : r \in Rows }

Parts == {None} \cup { Some([paragraphs |-> <<p>>]) : p \in CellParagraphs }

Sections == { [header |-> h, footer |-> f] : h \in Parts, f \in Parts }

Documents ==
    { [paragraphs |-> b, tables |-> ts, sections |-> <<sec>>] :
        b \in SeqsUpTo(DocParagraphs, MaxBody),
        ts \in {<<>>} \cup { <<tb>> : tb \in Tables },
        sec \in Sections }

\* the template file on disk, before DocxProcessor.get_placeholders is called
InitDoc ==
    /\ template \in Documents
    /\ doc = <<>>
    /\ found = {}
    /\ pc = "template"
    /\ runs = <<>>
    /\ data = <<>>
    /\ warnings = <<>>
    /\ placeholders = <<>>
    /\ remaining = <<>>
    /\ runs0 = <<>>
    /\ mid = <<>>
    /\ pre = [runs |-> <<>>, warnings |-> <<>>]
    /\ data2 = <<>>
    /\ BatchIdle
    /\ FillIdle
    /\ steps = <<>>
    /\ FlattenIdle
    /\ MainIdle
    /\ ShareIdle
    /\ RunIdle
    /\ ReportIdle

\* get_placeholders: load the template, walk it, return the set; nothing is saved
GetPlaceholders ==
    /\ pc = "template"
    /\ doc' = template
    /\ found' = get_placeholders(doc')
    /\ pc' = "scanned"
    /\ UNCHANGED <<template, runs, data, warnings, placeholders, remaining,
                   runs0, mid, pre, data2, batchVars, fillVars, flattenVars, mainVars, traceVars, shareVars, runVars, reportVars>>

NextDoc == GetPlaceholders

SpecDoc == InitDoc /\ [][NextDoc]_vars

(***************************************************************************)
(* C10  Placeholder enumeration                                            *)
(***************************************************************************)
Range(s) == { s[i] : i \in DOMAIN s }

\* every paragraph of the document: body, table cells, headers and footers
AllParagraphs(d) ==
    Range(d.paragraphs)
    \cup UNION { Range(c.paragraphs) :
                   c \in UNION { Range(r.cells) :
                                   r \in UNION { Range(tb.rows) : tb \in Range(d.tables) } } }
    \cup UNION { Range(part.paragraphs) :
                   part \in UNION { Range(sec.header) \cup Range(sec.footer) :
                                      sec \in Range(d.sections) } }

\* C10: get_placeholders returns exactly the set of names of the tokens in
\* the full text of every body, table-cell, header and footer paragraph, and
\* the loaded document still equals the template: no run is changed.
C10_Enumeration ==
    pc = "scanned" =>
        /\ found = UNION { Names(paragraph_text(p)) : p \in AllParagraphs(template) }
        /\ doc = template

\* {{a}} twice in the body and {{b}} split over two runs in a footer: {a, b}
C10_Witness ==
    /\ pc = "scanned"
    /\ found = { <<"a">>, <<"b">> }
    /\ Len(template.paragraphs) = 2
    /\ \A i \in 1..2 : <<"a">> \in Names(paragraph_text(template.paragraphs[i]))
    /\ template.tables # <<>>
    /\ template.sections[1].footer # None
    /\ Len(template.sections[1].footer[1].paragraphs[1]) = 2
    /\ doc = template

(***************************************************************************)
(* C11  Pattern of the enumeration                                         *)
(***************************************************************************)
\* C11 as stated: get_placeholders returns only names that match the
\* identifier pattern [a-zA-Z_][a-zA-Z0-9_.]*.
C11_AsStated ==
    pc = "scanned" => \A n \in found : StrictName(n)

\* the names the substitution pass's scan (line 64) finds in the paragraphs
EngineNames(d) ==
    UNION { Range(findall(paragraph_text(p))) : p \in AllParagraphs(d) }

\* C11: get_placeholders scans with the same permissive pattern as the
\* substitution pass: it returns exactly the names that pass's scan finds,
\* so a token whose name is no identifier, such as {{1x}}, is returned too.
C11_SamePattern ==
    pc = "scanned" =>
        /\ found = EngineNames(template)
        /\ \A p \in AllParagraphs(template) :
               \A n \in Names(paragraph_text(p)) : ~StrictName(n) => n \in found

\* a template with {{1x}} and an identifier placeholder; both are returned
C11_Witness ==
    /\ pc = "scanned"
    /\ <<"1", "x">> \in found
    /\ \E n \in found : StrictName(n)
    /\ \E p \in AllParagraphs(template) : <<"1", "x">> \in Names(paragraph_text(p))

(***************************************************************************)
(* Directory mode: find_docx_files and process_directory                   *)
(***************************************************************************)
startswith(s, prefix) ==
    /\ Len(prefix) <= Len(s)
    /\ SubSeq(s, 1, Len(prefix)) = prefix

endswith(s, suffix) ==
    /\ Len(suffix) <= Len(s)
    /\ SubSeq(s, Len(s) - Len(suffix) + 1, Len(s)) = suffix

\* sub in s
contains(s, sub) == \E k \in 1..(Len(s) - Len(sub) + 1) : StartsAt(s, sub, k)

\* the code points of the characters of the file names
CharCode(c) ==
    CASE c = "$" -> 36  [] c = "." -> 46  [] c = "T" -> 84  [] c = "_" -> 95
      [] c = "a" -> 97  [] c = "b" -> 98  [] c = "c" -> 99  [] c = "d" -> 100
      [] c = "e" -> 101 [] c = "f" -> 102 [] c = "i" -> 105 [] c = "l" -> 108
      [] c = "m" -> 109 [] c = "o" -> 111 [] c = "p" -> 112 [] c = "t" -> 116
      [] c = "x" -> 120 [] c = "~" -> 126

\* a < b for Python strings
RECURSIVE StrLess(_, _)
StrLess(a, b) ==
    IF b = <<>> THEN FALSE
    ELSE IF a = <<>> THEN TRUE
    ELSE IF Head(a) = Head(b) THEN StrLess(Tail(a), Tail(b))
    ELSE CharCode(Head(a)) < CharCode(Head(b))

\* the names of S in increasing order: list.sort(key=lambda x: x.name)
RECURSIVE sorted_names(_)
sorted_names(S) ==
    IF S = {}
    THEN <<>>
    ELSE LET least == CHOOSE n \in S : \A o \in S \ {n} : StrLess(n, o)
         IN  <<least>> \o sorted_names(S \ {least})

DotDocx == <<".", "d", "o", "c", "x">>

\* lines 42-48: the names find_docx_files skips
skipped(filename) ==
    \/ startswith(filename, <<"~", "$">>)
    \/ startswith(filename, <<"~", "W", "R", "L">>)
    \/ startswith(filename, <<".">>)
    \/ contains(lower(filename), <<"t", "e", "m", "p">>)
    \/ contains(lower(filename), <<"t", "m", "p">>)
    \/ endswith(filename, <<".", "t", "m", "p">> \o DotDocx)
    \/ endswith(filename, <<"_", "f", "i", "l", "l", "e", "d">> \o DotDocx)

\* find_docx_files on a directory holding the names of S: glob("*.docx"),
\* the filter, the sort; each file is [dir, name]
find_docx_files(dir, S) ==
    LET kept  == { n \in S : endswith(n, DotDocx) /\ ~skipped(n) }
        names == sorted_names(kept)
    IN  [k \in DOMAIN names |-> [dir |-> dir, name |-> names[k]]]

\* the index of the last "." of name, 0 if there is none
RECURSIVE rfind_dot(_, _)
rfind_dot(name, k) ==
    IF k = 0 THEN 0
    ELSE IF name[k] = "." THEN k ELSE rfind_dot(name, k - 1)

\* Path.suffix and Path.stem
path_suffix(name) ==
    LET k == rfind_dot(name, Len(name))
    IN  IF 1 < k /\ k < Len(name) THEN SubSeq(name, k, Len(name)) ELSE <<>>

path_stem(name) == SubSeq(name, 1, Len(name) - Len(path_suffix(name)))

Filled == <<"_", "f", "i", "l", "l", "e", "d">>

\* lines 111-114: out_file for template_file
out_file(out_path, template_file, with_suffix) ==
    LET stem   == path_stem(template_file.name)
        suffix == path_suffix(template_file.name)
    IN  [dir |-> out_path,
         name |-> IF with_suffix THEN stem \o Filled \o suffix ELSE stem \o suffix]

\* faulty variant of attempt_pc: a failing template ends the batch
attempt_pc_reraise(outcome) ==
    IF outcome = "ok" THEN "batch_loop" ELSE "batch_raised"

\* lines 122-135: try / except Exception / continue: the loop goes on
attempt_pc(outcome) == "batch_loop"

\* lines 122-125: outputs.append(out_file) follows a fill_template that returned
attempt_outputs(outs, file, outcome, with_suffix) ==
    IF outcome = "ok"
    THEN Append(outs, out_file("out", file, with_suffix))
    ELSE outs

\* what DocxProcessor(template_file).fill_template(..) can do
Outcomes == { "ok", "load_error", "fill_error", "save_error" }

\* lines 91-101: file_iter
file_iter(ls, rec) ==
    find_docx_files("in", ls.root)
        \o (IF rec THEN find_docx_files("in/sub", ls.sub) ELSE <<>>)

EngineIdle ==
    /\ runs = <<>>
    /\ data = <<>>
    /\ warnings = <<>>
    /\ placeholders = <<>>
    /\ remaining = <<>>
    /\ runs0 = <<>>
    /\ mid = <<>>
    /\ pre = [runs |-> <<>>, warnings |-> <<>>]
    /\ data2 = <<>>

DocIdle ==
    /\ template = <<>>
    /\ doc = <<>>
    /\ found = {}

engineVars == <<runs, data, warnings, placeholders, remaining, runs0, mid,
                pre, data2>>

docVars == <<template, doc, found>>

RootNames ==
    { <<"a">> \o DotDocx,
      <<"b">> \o DotDocx,
      <<"a">> \o Filled \o DotDocx,
      <<"t", "m", "p", "l">> \o DotDocx,
      <<"t", "e", "m", "p", "l", "a", "t", "e">> \o DotDocx,
      <<"~", "$", "a">> \o DotDocx,
      <<"a", ".", "t", "x", "t">> }

SubNames == { <<"a">> \o DotDocx, <<"T", "e", "m", "p">> \o DotDocx }

\* the input directory does not exist (None), or holds the files of root
\* and one subdirectory holding the files of sub
Listings ==
    {None} \cup { [root |-> r, sub |-> sb] : r \in SUBSET RootNames, sb \in SUBSET SubNames }

InitBatch ==
    /\ listing \in Listings
    /\ recursive \in BOOLEAN
    /\ add_filled_suffix \in BOOLEAN
    /\ files = <<>>
    /\ file_index = 0
    /\ outputs = <<>>
    /\ attempts = <<>>
    /\ pc = "batch_start"
    /\ EngineIdle
    /\ DocIdle
    /\ FillIdle
    /\ steps = <<>>
    /\ FlattenIdle
    /\ MainIdle
    /\ ShareIdle
    /\ RunIdle
    /\ ReportIdle

\* lines 79-108: validate the directories, read the config, build file_iter
StartBatch ==
    /\ pc = "batch_start"
    /\ \E config_ok \in BOOLEAN :
          IF listing = None \/ ~config_ok
          THEN /\ pc' = "batch_raised"
               /\ files' = files
          ELSE /\ files' = file_iter(listing, recursive)
               /\ pc' = IF Len(files') = 0 THEN "batch_returned" ELSE "batch_loop"
    /\ UNCHANGED <<listing, recursive, add_filled_suffix, file_index, outputs,
                   attempts, engineVars, docVars, fillVars, flattenVars, mainVars, traceVars, shareVars, runVars, reportVars>>

\* lines 110-135: one iteration of the loop over file_iter
ProcessFile ==
    /\ pc = "batch_loop"
    /\ file_index < Len(files)
    /\ \E outcome \in Outcomes :
          /\ attempts' = Append(attempts, [file |-> files[file_index + 1],
                                           outcome |-> outcome])
          /\ outputs' = attempt_outputs(outputs, files[file_index + 1], outcome,
                                        add_filled_suffix)
          /\ pc' = attempt_pc(outcome)
    /\ file_index' = file_index + 1
    /\ UNCHANGED <<listing, recursive, add_filled_suffix, files, engineVars, docVars, fillVars, flattenVars, mainVars, traceVars, shareVars, runVars, reportVars>>

\* line 139: return outputs
ReturnOutputs ==
    /\ pc = "batch_loop"
    /\ file_index = Len(files)
    /\ pc' = "batch_returned"
    /\ UNCHANGED <<batchVars, engineVars, docVars, fillVars, flattenVars, mainVars, traceVars, shareVars, runVars, reportVars>>

NextBatch == StartBatch \/ ProcessFile \/ ReturnOutputs

SpecBatch == InitBatch /\ [][NextBatch]_vars

(***************************************************************************)
(* C12  Batch partial failure                                              *)
(***************************************************************************)
\* the output paths of the successful attempts, in order
RECURSIVE OkOutputs(_, _)
OkOutputs(as, with_suffix) ==
    IF as = <<>>
    THEN <<>>
    ELSE (IF Head(as).outcome = "ok"
          THEN <<out_file("out", Head(as).file, with_suffix)>>
          ELSE <<>>) \o OkOutputs(Tail(as), with_suffix)

\* C12: once the templates have been found, process_directory never raises:
\* whatever subset of them fails to load, fill or save, every template is
\* attempted in order and the returned list holds exactly the output paths
\* of those that succeeded, in processing order.
C12_PartialFailure ==
    /\ pc = "batch_raised" => (files = <<>> /\ attempts = <<>>)
    /\ pc = "batch_returned" =>
          /\ Len(attempts) = Len(files)
          /\ \A k \in DOMAIN files : attempts[k].file = files[k]
          /\ outputs = OkOutputs(attempts, add_filled_suffix)
          /\ Len(outputs) = Cardinality({ k \in DOMAIN attempts : attempts[k].outcome = "ok" })

\* three templates, the second fails: two outputs, the first and the third
C12_Witness ==
    /\ pc = "batch_returned"
    /\ Len(files) = 3
    /\ attempts[1].outcome = "ok"
    /\ attempts[2].outcome = "load_error"
    /\ attempts[3].outcome = "ok"
    /\ Len(outputs) = 2
    /\ outputs[2] = out_file("out", files[3], add_filled_suffix)

(***************************************************************************)
(* fill_template: load, walk every paragraph, save                         *)
(***************************************************************************)
RECURSIVE Flatten(_)
Flatten(ss) == IF ss = <<>> THEN <<>> ELSE Head(ss) \o Flatten(Tail(ss))

\* where a paragraph stands: part is "body", "cell", "header" or "footer";
\* t is the table or section, r the row, c the cell, p the paragraph
Loc(part, t, r, c, p) == [part |-> part, t |-> t, r |-> r, c |-> c, p |-> p]

\* lines 28-29
body_order(d) == [p \in DOMAIN d.paragraphs |-> Loc("body", 0, 0, 0, p)]

\* lines 32-36
cell_order(d, t, r, c) ==
    [p \in DOMAIN d.tables[t].rows[r].cells[c].paragraphs |-> Loc("cell", t, r, c, p)]

row_order(d, t, r) ==
    Flatten([c \in DOMAIN d.tables[t].rows[r].cells |-> cell_order(d, t, r, c)])

table_order(d, t) ==
    Flatten([r \in DOMAIN d.tables[t].rows |-> row_order(d, t, r)])

tables_order(d) == Flatten([t \in DOMAIN d.tables |-> table_order(d, t)])

\* faulty variant of section_order: the footer is processed before the header
section_order_footer_first(d, s) ==
    (IF d.sections[s].footer # None
     THEN [p \in DOMAIN d.sections[s].footer[1].paragraphs |-> Loc("footer", s, 0, 0, p)]
     ELSE <<>>)
    \o
    (IF d.sections[s].header # None
     THEN [p \in DOMAIN d.sections[s].header[1].paragraphs |-> Loc("header", s, 0, 0, p)]
     ELSE <<>>)

\* lines 39-48
section_order(d, s) ==
    (IF d.sections[s].header # None
     THEN [p \in DOMAIN d.sections[s].header[1].paragraphs |-> Loc("header", s, 0, 0, p)]
     ELSE <<>>)
    \o
    (IF d.sections[s].footer # None
     THEN [p \in DOMAIN d.sections[s].footer[1].paragraphs |-> Loc("footer", s, 0, 0, p)]
     ELSE <<>>)

sections_order(d) == Flatten([s \in DOMAIN d.sections |-> section_order(d, s)])

\* the paragraphs in the order fill_template's loops reach them
walk_order(d) == body_order(d) \o tables_order(d) \o sections_order(d)

paragraph_at(d, l) ==
    CASE l.part = "body"   -> d.paragraphs[l.p]
      [] l.part = "cell"   -> d.tables[l.t].rows[l.r].cells[l.c].paragraphs[l.p]
      [] l.part = "header" -> d.sections[l.t].header[1].paragraphs[l.p]
      [] l.part = "footer" -> d.sections[l.t].footer[1].paragraphs[l.p]

\* faulty variant of with_paragraph: the body paragraphs are one object, a
\* write to one of them shows in all
with_paragraph_aliased(d, l, rs) ==
    CASE l.part = "body"   ->
            [d EXCEPT !.paragraphs = [p \in DOMAIN d.paragraphs |-> rs]]
      [] l.part = "cell"   ->
            [d EXCEPT !.tables[l.t].rows[l.r].cells[l.c].paragraphs[l.p] = rs]
      [] l.part = "header" -> [d EXCEPT !.sections[l.t].header[1].paragraphs[l.p] = rs]
      [] l.part = "footer" -> [d EXCEPT !.sections[l.t].footer[1].paragraphs[l.p] = rs]

\* the document with the paragraph at l holding the runs rs
with_paragraph(d, l, rs) ==
    CASE l.part = "body"   -> [d EXCEPT !.paragraphs[l.p] = rs]
      [] l.part = "cell"   ->
            [d EXCEPT !.tables[l.t].rows[l.r].cells[l.c].paragraphs[l.p] = rs]
      [] l.part = "header" -> [d EXCEPT !.sections[l.t].header[1].paragraphs[l.p] = rs]
      [] l.part = "footer" -> [d EXCEPT !.sections[l.t].footer[1].paragraphs[l.p] = rs]

\* isinstance(value, dict): a nested entry carries the field "nested"
is_dict(entry) == "nested" \in DOMAIN entry

\* faulty variant of replacement_is_dict: a placeholder without a key raises
\* too, as data[placeholder] without the membership test would
replacement_raises_when_missing(d, placeholder) ==
    \/ simple_unresolved(d, placeholder)
    \/ LET key == IF HasKey(d, placeholder) THEN placeholder
                  ELSE actual_key(d, placeholder)
       IN  is_dict(d[CHOOSE i \in DOMAIN d : d[i].k = key])

\* the value the engine would insert for placeholder is no string
replacement_is_dict(d, placeholder) ==
    /\ ~simple_unresolved(d, placeholder)
    /\ LET key == IF HasKey(d, placeholder) THEN placeholder
                  ELSE actual_key(d, placeholder)
       IN  is_dict(d[CHOOSE i \in DOMAIN d : d[i].k = key])

\* str.replace raises TypeError when handed a dict (lines 94 and 150)
engine_raises(rs, d) ==
    IF findall(paragraph_text(rs)) = <<>>
    THEN FALSE
    ELSE IF \E i \in DOMAIN rs :
               \E n \in Range(findall(rs[i].text)) : replacement_is_dict(d, n)
         THEN TRUE
         ELSE \E n \in Range(findall(paragraph_text(simple_pass(rs, d)))) :
                  replacement_is_dict(d, n)

DottedName == <<"c", ".", "n">>

\* mappings handed to fill_template: flat ones, one with a dotted key as
\* ConfigReader produces it, and one with a nested mapping under "c"
FillMappings ==
    { <<>>,
      <<[k |-> <<"a">>, v |-> <<"X">>]>>,
      <<[k |-> <<"A">>, v |-> <<>>], [k |-> <<"b">>, v |-> <<"{", "{", "a", "}", "}">>]>>,
      <<[k |-> <<"a">>, v |-> <<"X">>], [k |-> DottedName, v |-> <<"X">>]>>,
      <<[k |-> <<"a">>, v |-> <<"X">>],
        [k |-> <<"c">>, v |-> <<[k |-> <<"n">>, v |-> <<"X">>]>>, nested |-> TRUE]>> }

InitFill ==
    /\ template \in Documents
    /\ data \in FillMappings
    /\ pc = "fill_start"
    /\ doc = <<>>
    /\ found = {}
    /\ warnings = <<>>
    /\ runs = <<>>
    /\ placeholders = <<>>
    /\ remaining = <<>>
    /\ runs0 = <<>>
    /\ mid = <<>>
    /\ pre = [runs |-> <<>>, warnings |-> <<>>]
    /\ data2 = <<>>
    /\ BatchIdle
    /\ FillIdle
    /\ steps = <<>>
    /\ FlattenIdle
    /\ MainIdle
    /\ ShareIdle
    /\ RunIdle
    /\ ReportIdle

\* lines 20-25: Document(self.template_path), RuntimeError when it fails
LoadTemplate ==
    /\ pc = "fill_start"
    /\ \E loaded \in BOOLEAN :
          IF loaded
          THEN /\ doc' = template
               /\ todo' = walk_order(template)
               /\ pc' = "fill_walk"
          ELSE /\ pc' = "fill_raised_load"
               /\ UNCHANGED <<doc, todo, flattenVars, mainVars, traceVars, shareVars, runVars, reportVars>>
    /\ UNCHANGED <<template, found, data, warnings, runs, placeholders, remaining,
                   runs0, mid, pre, data2, visited, output, batchVars, flattenVars, mainVars, traceVars, shareVars, runVars, reportVars>>

\* lines 28-48: self._replace_in_paragraph(paragraph, data, verbose) on the
\* next paragraph of the walk
ProcessParagraph ==
    /\ pc = "fill_walk"
    /\ todo # <<>>
    /\ LET l == Head(todo)
           p == paragraph_at(doc, l)
       IN  IF engine_raises(p, data)
           THEN /\ pc' = "fill_raised_engine"
                /\ UNCHANGED <<doc, warnings, visited, todo, flattenVars, mainVars, traceVars, shareVars, runVars, reportVars>>
           ELSE /\ doc' = with_paragraph(doc, l, replace_in_paragraph(p, data).runs)
                /\ warnings' = warnings \o replace_in_paragraph(p, data).warnings
                /\ visited' = Append(visited, l)
                /\ todo' = Tail(todo)
                /\ pc' = pc
    /\ UNCHANGED <<template, found, data, runs, placeholders, remaining,
                   runs0, mid, pre, data2, output, batchVars, flattenVars, mainVars, traceVars, shareVars, runVars, reportVars>>

\* lines 50-58: doc.save(output_path), RuntimeError when it fails
SaveDocument ==
    /\ pc = "fill_walk"
    /\ todo = <<>>
    /\ \E saved \in BOOLEAN :
          IF saved
          THEN /\ output' = Some(doc)
               /\ pc' = "fill_returned"
          ELSE /\ output' = output
               /\ pc' = "fill_raised_save"
    /\ UNCHANGED <<template, doc, found, data, warnings, runs, placeholders,
                   remaining, runs0, mid, pre, data2, todo, visited, batchVars, flattenVars, mainVars, traceVars, shareVars, runVars, reportVars>>

NextFill == LoadTemplate \/ ProcessParagraph \/ SaveDocument

SpecFill == InitFill /\ [][NextFill]_vars

(***************************************************************************)
(* C13  Document walker                                                    *)
(***************************************************************************)
\* every place of d that holds a paragraph
AllLocations(d) ==
    { Loc("body", 0, 0, 0, p) : p \in DOMAIN d.paragraphs }
    \cup UNION { UNION { UNION { { Loc("cell", t, r, c, p) :
                                     p \in DOMAIN d.tables[t].rows[r].cells[c].paragraphs } :
                                 c \in DOMAIN d.tables[t].rows[r].cells } :
                         r \in DOMAIN d.tables[t].rows } :
                 t \in DOMAIN d.tables }
    \cup UNION { (IF d.sections[s].header = None THEN {}
                  ELSE { Loc("header", s, 0, 0, p) :
                           p \in DOMAIN d.sections[s].header[1].paragraphs })
                 \cup
                 (IF d.sections[s].footer = None THEN {}
                  ELSE { Loc("footer", s, 0, 0, p) :
                           p \in DOMAIN d.sections[s].footer[1].paragraphs }) :
                 s \in DOMAIN d.sections }

\* body, then tables, then sections; within a section header, then footer
PartRank(l) == CASE l.part = "body" -> 1 [] l.part = "cell" -> 2 [] OTHER -> 3

HalfRank(l) == IF l.part = "footer" THEN 1 ELSE 0

LexLess(a, b) ==
    \E k \in DOMAIN a :
        /\ a[k] < b[k]
        /\ \A j \in 1..(k - 1) : a[j] = b[j]

WalkKey(l) == <<PartRank(l), l.t, l.r, l.c, HalfRank(l), l.p>>

Earlier(l1, l2) == LexLess(WalkKey(l1), WalkKey(l2))

RECURSIVE SplitDots(_, _)
SplitDots(n, part) ==
    IF n = <<>> THEN <<part>>
    ELSE IF Head(n) = "." THEN <<part>> \o SplitDots(Tail(n), <<>>)
    ELSE SplitDots(Tail(n), Append(part, Head(n)))

\* the entries of mapping d under the key path: the leaf's value as a
\* one-element set, or {} when the path leads nowhere
RECURSIVE NestedValues(_, _)
NestedValues(d, path) ==
    UNION { IF Len(path) = 1
            THEN (IF is_dict(d[i]) THEN {} ELSE {d[i].v})
            ELSE (IF is_dict(d[i]) THEN NestedValues(d[i].v, Tail(path)) ELSE {}) :
            i \in { j \in DOMAIN d : d[j].k = Head(path) } }

\* C14: a placeholder {{c.n}} is replaced by the value found under key n of
\* the nested mapping stored under key c of the mapping given to fill_template.
C14_NestedData ==
    output # None =>
        \A l \in AllLocations(template) :
            \A n \in Names(paragraph_text(paragraph_at(template, l))) :
                \A v \in NestedValues(data, SplitDots(n, <<>>)) :
                    /\ NoBraces(n)
                    /\ Len(SplitDots(n, <<>>)) > 1
                    => /\ IsSubstring(v, paragraph_text(paragraph_at(output[1], l)))
                       /\ ~IsSubstring(placeholder_with_braces(n),
                                       paragraph_text(paragraph_at(output[1], l)))

(***************************************************************************)
(* ConfigReader._flatten_dict                                              *)
(***************************************************************************)
MaxEntries == 2
MaxDepth == 2

\* str(value) of a leaf: a leaf is [type, val]
py_str(leaf) ==
    CASE leaf.type = "str"  -> leaf.val
      [] leaf.type = "int"  -> <<"5">>
      [] leaf.type = "none" -> <<"N", "o", "n", "e">>

\* faulty variant of new_key: the parent key is dropped
new_key_without_parent(parent_key, key) == key

\* f"{parent_key}{separator}{key}" if parent_key else key
new_key(parent_key, key) ==
    IF parent_key # <<>> THEN parent_key \o <<".">> \o key ELSE key

\* the list `items` built by the loop of lines 69-75, as [k, v] pairs
RECURSIVE flatten_items(_, _)
flatten_items(d, parent_key) ==
    IF d = <<>>
    THEN <<>>
    ELSE LET entry == Head(d)
             key   == new_key(parent_key, entry.k)
         IN  (IF is_dict(entry)
              THEN flatten_items(entry.v, key)
              ELSE <<[k |-> key, v |-> py_str(entry.v)]>>)
             \o flatten_items(Tail(d), parent_key)

\* dict(items): a later pair with a key already present replaces its value
RECURSIVE dict_of(_, _)
dict_of(items, acc) ==
    IF items = <<>>
    THEN acc
    ELSE LET pair == Head(items)
         IN  dict_of(Tail(items),
                     IF \E i \in DOMAIN acc : acc[i].k = pair.k
                     THEN [i \in DOMAIN acc |->
                              IF acc[i].k = pair.k THEN pair ELSE acc[i]]
                     ELSE Append(acc, pair))

flatten_dict(d) == dict_of(flatten_items(d, <<>>), <<>>)

ConfigKeys == { <<"a">>, <<"b">>, <<"a", ".", "b">>, <<>> }

ConfigLeaves ==
    { [type |-> "str", val |-> <<"X">>],
      [type |-> "int", val |-> 5],
      [type |-> "none", val |-> 0] }

\* dicts of at most MaxEntries entries with distinct keys over the values V
DictsOver(V) ==
    UNION { { d \in [1..n -> { [k |-> key, v |-> val] : key \in ConfigKeys, val \in V.leaves }
                             \cup { [k |-> key, v |-> val, nested |-> TRUE] :
                                      key \in ConfigKeys, val \in V.dicts }] :
                \A i, j \in 1..n : i # j => d[i].k # d[j].k } :
            n \in 0..MaxEntries }

\* nested configurations of depth at most n
RECURSIVE ConfigsOfDepth(_)
ConfigsOfDepth(n) ==
    IF n = 1
    THEN DictsOver([leaves |-> ConfigLeaves, dicts |-> {}])
    ELSE DictsOver([leaves |-> ConfigLeaves, dicts |-> ConfigsOfDepth(n - 1)])

InitFlatten ==
    /\ config \in ConfigsOfDepth(MaxDepth)
    /\ flat = <<>>
    /\ pc = "parsed"
    /\ EngineIdle
    /\ DocIdle
    /\ BatchIdle
    /\ FillIdle
    /\ steps = <<>>
    /\ MainIdle
    /\ ShareIdle
    /\ RunIdle
    /\ ReportIdle

\* lines 39, 45, 64: return self._flatten_dict(data)
FlattenConfig ==
    /\ pc = "parsed"
    /\ flat' = flatten_dict(config)
    /\ pc' = "flattened"
    /\ UNCHANGED <<config, engineVars, docVars, batchVars, fillVars, mainVars, traceVars, shareVars, runVars, reportVars>>

NextFlatten == FlattenConfig

SpecFlatten == InitFlatten /\ [][NextFlatten]_vars

(***************************************************************************)
(* C15  Config flattening                                                  *)
(***************************************************************************)
\* the leaves of a nested mapping, each with its path of keys
RECURSIVE LeavesOf(_, _)
LeavesOf(d, prefix) ==
    UNION { IF is_dict(d[i])
            THEN LeavesOf(d[i].v, Append(prefix, d[i].k))
            ELSE { [path |-> Append(prefix, d[i].k), leaf |-> d[i].v] } :
            i \in DOMAIN d }

\* the keys of path joined with "."
RECURSIVE JoinDots(_)
JoinDots(path) ==
    IF Len(path) = 1 THEN path[1]
    ELSE path[1] \o <<".">> \o JoinDots(Tail(path))

\* the flat mapping has one entry per leaf: its joined path and its string
OneEntryPerLeaf(d, f) ==
    /\ Len(f) = Cardinality(LeavesOf(d, <<>>))
    /\ \A i, j \in DOMAIN f : i # j => f[i].k # f[j].k
    /\ \A l \in LeavesOf(d, <<>>) :
           \E i \in DOMAIN f : f[i].k = JoinDots(l.path) /\ f[i].v = py_str(l.leaf)

NoEmptyKey(d) == \A l \in LeavesOf(d, <<>>) : \A k \in DOMAIN l.path : l.path[k] # <<>>

\* C15 as stated, read on mappings without empty keys: for any nested mapping
\* the result has exactly one entry per leaf, keyed by the joined path,
\* holding the leaf's string form.
C15_AsStated ==
    (pc = "flattened" /\ NoEmptyKey(config)) => OneEntryPerLeaf(config, flat)

DistinctPaths(d) ==
    \A l1, l2 \in LeavesOf(d, <<>>) :
        l1 # l2 => JoinDots(l1.path) # JoinDots(l2.path)

\* C15: when no key is empty, the keys of the result are exactly the joined
\* paths of the leaves and every value is the string form of a leaf of that
\* path; when moreover no two leaves share a joined path, the result has
\* exactly one entry per leaf and none is lost.
C15_Flatten ==
    (pc = "flattened" /\ NoEmptyKey(config)) =>
        /\ { flat[i].k : i \in DOMAIN flat }
               = { JoinDots(l.path) : l \in LeavesOf(config, <<>>) }
        /\ \A i, j \in DOMAIN flat : i # j => flat[i].k # flat[j].k
        /\ \A i \in DOMAIN flat :
               \E l \in LeavesOf(config, <<>>) :
                   flat[i].k = JoinDots(l.path) /\ flat[i].v = py_str(l.leaf)
        /\ DistinctPaths(config) => OneEntryPerLeaf(config, flat)

\* a mapping with a top-level leaf, a None leaf and a nested integer
C15_Witness ==
    /\ pc = "flattened"
    /\ NoEmptyKey(config)
    /\ DistinctPaths(config)
    /\ Len(flat) = 3
    /\ \E i \in DOMAIN flat : flat[i].k = <<"b", ".", "a">> /\ flat[i].v = <<"5">>
    /\ \E i \in DOMAIN flat : flat[i].v = <<"N", "o", "n", "e">>

(***************************************************************************)
(* docfill main: validation, then one template path after the other        *)
(***************************************************************************)
MaxTemplates == 2

\* a path is [dir, name, kind]; kind says what is on disk at that path
Path(dir, name, kind) == [dir |-> dir, name |-> name, kind |-> kind]

\* -o "" : an argument that is falsy
EmptyArg == Path("", <<>>, "missing")

ExplicitOutput == Path("o", <<"r">> \o DotDocx, "missing")

\* `if args.output`: None and the empty string are falsy
output_given(a) == a.output # None /\ a.output[1].name # <<>>

\* faulty variant of output_path: -o is used whenever it is given
output_path_always_explicit(a, template_path) ==
    IF output_given(a)
    THEN a.output[1]
    ELSE Path(template_path.dir,
              path_stem(template_path.name) \o Filled \o path_suffix(template_path.name),
              "missing")

\* lines 131-138
output_path(a, template_path) ==
    IF output_given(a) /\ Len(a.templates) = 1
    THEN a.output[1]
    ELSE Path(template_path.dir,
              path_stem(template_path.name) \o Filled \o path_suffix(template_path.name),
              "missing")

TemplateArgs ==
    { Path(d, n, "file") :
        d \in {"d1", "d2"},
        n \in { <<"a">> \o DotDocx, <<"a", ".", "b">> \o DotDocx, <<"a">> } }
    \cup { Path("d1", <<"t">>, "dir"), Path("d1", <<"m">> \o DotDocx, "missing") }

CommandLines ==
    { [config_exists |-> ce, templates |-> ts, output |-> o, check_placeholders |-> cp,
       pdf |-> pf] :
        pf \in BOOLEAN,
        ce \in BOOLEAN,
        ts \in SeqsUpTo(TemplateArgs, MaxTemplates) \ {<<>>},
        o \in {None, Some(EmptyArg), Some(ExplicitOutput)},
        cp \in BOOLEAN }

InitMain ==
    /\ args \in CommandLines
    /\ path_index = 0
    /\ written = <<>>
    /\ exit_code = None
    /\ pc = "main_start"
    /\ EngineIdle
    /\ DocIdle
    /\ BatchIdle
    /\ FillIdle
    /\ steps = <<>>
    /\ FlattenIdle
    /\ ShareIdle
    /\ started = <<>>
    /\ all_output_files = <<>>
    /\ converted = None
    /\ ReportIdle

\* lines 77-95: the config and every template path must exist, then the
\* configuration is read; a failing read is caught at line 214
ValidatePaths ==
    /\ pc = "main_start"
    /\ \E config_read \in BOOLEAN :
          IF \/ ~args.config_exists
             \/ \E k \in DOMAIN args.templates : args.templates[k].kind = "missing"
             \/ ~config_read
          THEN /\ exit_code' = Some(1)
               /\ pc' = "main_exit"
          ELSE /\ exit_code' = exit_code
               /\ pc' = "main_loop"
    /\ UNCHANGED <<args, path_index, written, engineVars, docVars, batchVars,
                   fillVars, flattenVars, traceVars, shareVars, runVars, reportVars>>

\* directory / name
in_directory(directory, name) ==
    Path(directory.dir, directory.name \o <<"/">> \o name, "missing")

\* line 109: the output directory of a directory argument
output_dir(a, template_path) ==
    IF output_given(a)
    THEN a.output[1]
    ELSE in_directory(template_path, <<"o", "u", "t", "p", "u", "t">>)

\* what process_directory can do: raise, or return the outputs of the
\* templates it filled, none or one of them here
DirectoryResults == { "dir_raised", "dir_none", "dir_one" }

\* lines 107-124: a directory: process_directory writes below the output
\* directory; an exception it raises ends main at line 214
ProcessDirectoryPath ==
    /\ pc = "main_loop"
    /\ path_index < Len(args.templates)
    /\ args.templates[path_index + 1].kind = "dir"
    /\ \E result \in DirectoryResults :
          LET template_path == args.templates[path_index + 1]
          IN  /\ started' = Append(started, [path |-> template_path, outcome |-> result])
              /\ IF result = "dir_raised"
                 THEN /\ exit_code' = Some(1)
                      /\ pc' = "main_exit"
                      /\ path_index' = path_index
                      /\ all_output_files' = all_output_files
                 ELSE /\ exit_code' = exit_code
                      /\ pc' = pc
                      /\ path_index' = path_index + 1
                      /\ all_output_files' =
                            IF result = "dir_one"
                            THEN Append(all_output_files,
                                        in_directory(output_dir(args, template_path),
                                                     <<"a">> \o Filled \o DotDocx))
                            ELSE all_output_files
    /\ UNCHANGED <<args, written, converted, engineVars, docVars, batchVars, fillVars,
                   flattenVars, traceVars, shareVars, reportVars>>

\* faulty variant of file_outcome_pc: a template that fails ends main
file_outcome_pc_fatal(outcome) == IF outcome = "filled" THEN "main_loop" ELSE "main_exit"

\* lines 172-183: try / except Exception / continue
file_outcome_pc(outcome) == "main_loop"

\* lines 126-183: a file: the output path, the placeholder report, the fill
ProcessFilePath ==
    /\ pc = "main_loop"
    /\ path_index < Len(args.templates)
    /\ args.templates[path_index + 1].kind = "file"
    /\ LET template_path == args.templates[path_index + 1]
       IN  IF args.check_placeholders /\ Len(args.templates) = 1
           THEN /\ \E reported \in BOOLEAN :
                      exit_code' = IF reported THEN Some(0) ELSE Some(1)
                /\ pc' = "main_exit"
                /\ UNCHANGED <<written, path_index, started, all_output_files, reportVars>>
           ELSE /\ \E outcome \in {"filled", "failed"} :
                      /\ written' = IF outcome = "filled"
                                    THEN Append(written,
                                                [template |-> template_path,
                                                 to |-> output_path(args, template_path)])
                                    ELSE written
                      /\ all_output_files' =
                            IF outcome = "filled"
                            THEN Append(all_output_files, output_path(args, template_path))
                            ELSE all_output_files
                      /\ started' = Append(started, [path |-> template_path,
                                                     outcome |-> outcome])
                      /\ pc' = file_outcome_pc(outcome)
                      /\ exit_code' = IF pc' = "main_exit" THEN Some(1) ELSE exit_code
                /\ path_index' = path_index + 1
    /\ UNCHANGED <<args, converted, engineVars, docVars, batchVars, fillVars,
                   flattenVars, traceVars, shareVars, reportVars>>

\* lines 185-212: the PDF conversion of the collected outputs when --pdf is
\* given and a conversion method is available, the summary, return 0
FinishMain ==
    /\ pc = "main_loop"
    /\ path_index = Len(args.templates)
    /\ \E method_available \in BOOLEAN :
          converted' = IF args.pdf /\ all_output_files # <<>> /\ method_available
                       THEN Some(all_output_files)
                       ELSE None
    /\ exit_code' = Some(0)
    /\ pc' = "main_exit"
    /\ UNCHANGED <<args, path_index, written, started, all_output_files, engineVars,
                   docVars, batchVars, fillVars, flattenVars, traceVars, shareVars, reportVars>>

NextMain == ValidatePaths \/ ProcessDirectoryPath \/ ProcessFilePath \/ FinishMain

SpecMain == InitMain /\ [][NextMain]_vars

(***************************************************************************)
(* C16  Output naming in file mode                                         *)
(***************************************************************************)
\* name is stem followed by ext, ext being the extension: empty when name
\* has no dot after its first character or ends with a dot, otherwise the
\* part from the last dot on
IsStemExt(name, stem, ext) ==
    /\ name = stem \o ext
    /\ \/ /\ ext = <<>>
          /\ \/ \A k \in 2..Len(name) : name[k] # "."
             \/ name[Len(name)] = "."
       \/ /\ Len(ext) >= 2
          /\ ext[1] = "."
          /\ \A k \in 2..Len(ext) : ext[k] # "."
          /\ stem # <<>>

\* <stem>_filled<extension> in the template's own directory
IsDefaultOutput(p, t) ==
    /\ p.dir = t.dir
    /\ \E k \in 0..Len(t.name) :
           /\ IsStemExt(t.name, SubSeq(t.name, 1, k), SubSeq(t.name, k + 1, Len(t.name)))
           /\ p.name = SubSeq(t.name, 1, k) \o <<"_", "f", "i", "l", "l", "e", "d">>
                           \o SubSeq(t.name, k + 1, Len(t.name))

\* C16 as stated: with -o every template file is written to the explicit
\* path, without -o to <stem>_filled<extension> beside the template.
C16_AsStated ==
    \A k \in DOMAIN written :
        IF args.output # None /\ args.output[1] # EmptyArg
        THEN written[k].to = args.output[1]
        ELSE IsDefaultOutput(written[k].to, written[k].template)

\* C16: a template file is written to the explicit path only when -o is
\* given and it is the only template path of the command line; in every
\* other case, -o given or not, it is written to <stem>_filled<extension>
\* in the template's own directory.
C16_OutputNaming ==
    \A k \in DOMAIN written :
        /\ written[k].template.kind = "file"
        /\ IF args.output # None /\ args.output[1] # EmptyArg /\ Len(args.templates) = 1
           THEN written[k].to = args.output[1]
           ELSE IsDefaultOutput(written[k].to, written[k].template)

\* two template files and -o: both are written beside their templates
C16_Witness ==
    /\ pc = "main_exit"
    /\ exit_code = Some(0)
    /\ args.output = Some(ExplicitOutput)
    /\ Len(written) = 2
    /\ written[1].template.name = <<"a", ".", "b">> \o DotDocx
    /\ written[1].to.name = <<"a", ".", "b">> \o Filled \o DotDocx
    /\ written[2].to.dir = "d2"

(***************************************************************************)
(* C17  The engine never fails on data content                             *)
(***************************************************************************)
\* a string-to-string mapping: no value is a nested mapping
StrMapping(d) == \A i \in DOMAIN d : ~is_dict(d[i])

NestedRaises ==
    /\ pc = "fill_raised_engine"
    /\ ~StrMapping(data)

(***************************************************************************)
(* C18  Per-paragraph state machine                                        *)
(***************************************************************************)
Count(s, x) == Cardinality({ k \in DOMAIN s : s[k] = x })

IsPrefix(s, t) == Len(s) <= Len(t) /\ SubSeq(t, 1, Len(s)) = s

\* the simple pass runs at most once and before the spanning pass, the
\* spanning pass at most once and only when a token remains after the
\* simple pass, and nothing is scanned after it
PassOrder ==
    /\ Count(steps, "simple") <= 1
    /\ Count(steps, "spanning") <= 1
    /\ IsPrefix(steps, <<"scan", "simple", "rescan", "spanning">>)
    /\ Count(steps, "spanning") = 1 => HasToken(paragraph_text(mid))
    /\ Count(steps, "simple") = 1 => HasToken(paragraph_text(runs0))
    /\ pc \in {"done", "rerun"} =>
          steps \in { <<"scan">>,
                      <<"scan", "simple", "rescan">>,
                      <<"scan", "simple", "rescan", "spanning">> }

\* C18: for every paragraph the engine runs the simple pass at most once and
\* before any spanning pass, the spanning pass at most once and only if a
\* token remains in the full text recomputed after the simple pass, scans
\* nothing afterwards, and always reaches its terminal state.
C18_StateMachine == []PassOrder /\ <>(pc = "done")

\* a call that ended after the simple pass alone, one run untouched by it
C18_Witness ==
    /\ pc = "done"
    /\ steps = <<"scan", "simple", "rescan">>
    /\ Len(runs) = 2
    /\ runs # runs0
    /\ ~HasToken(paragraph_text(runs))

(***************************************************************************)
(* The engine on paragraphs whose names differ from the keys by case only, *)
(* and whose placeholders are split over three runs                        *)
(***************************************************************************)
NamePieces ==
    { <<"x">>,
      <<"{", "{", "A", "B", "}", "}">>,
      <<"{", "{", "a", "b", "}", "}">>,
      <<"{", "{", "a", "b">>,
      <<"}", "}", "{", "{", "a">>,
      <<"}", "}">> }

NameParagraphs ==
    UNION { { [i \in 1..n |-> [text |-> t[i], fmt |-> FormatOf(i, 1)]] :
                t \in [1..n -> NamePieces] } :
            n \in 0..MaxRuns }

NameKeys == { <<"a", "b">>, <<"A", "b">>, <<"A", "B">>, <<"a">> }

NameValues == { <<"X">>, <<"Y">>, <<"{", "{", "a", "}", "}">> }

NameMappings ==
    UNION { { m \in [1..n -> [k : NameKeys, v : NameValues]] :
                \A i, j \in 1..n : i # j => m[i].k # m[j].k } :
            n \in 0..MaxKeys }

InitNames ==
    /\ runs \in NameParagraphs
    /\ data \in NameMappings
    /\ pc = "entry"
    /\ warnings = <<>>
    /\ placeholders = <<>>
    /\ remaining = <<>>
    /\ runs0 = runs
    /\ mid = <<>>
    /\ pre = [runs |-> <<>>, warnings |-> <<>>]
    /\ data2 = <<>>
    /\ DocIdle
    /\ BatchIdle
    /\ FillIdle
    /\ steps = <<>>
    /\ FlattenIdle
    /\ MainIdle
    /\ ShareIdle
    /\ RunIdle
    /\ ReportIdle

SpecNames == InitNames /\ [][Next]_vars

(***************************************************************************)
(* C19  Spanning-pass substitution                                         *)
(***************************************************************************)
\* C19: the full text the spanning pass produces is the full text it was
\* given with exactly the token spans of one left-to-right scan replaced,
\* each by its resolved value or kept literally when unresolved; every
\* character outside those spans stays, in order.
C19_SpanningSubst ==
    (pc = "done" /\ remaining # <<>>) =>
        paragraph_text(runs) = Subst(paragraph_text(mid), data)

(***************************************************************************)
(* C20  Key resolution order                                               *)
(***************************************************************************)
\* the position in the mapping's iteration order of the key a name is
\* resolved with, as the statement words it
ExactAt(d, name) == { i \in DOMAIN d : d[i].k = name }

IgnoringCaseAt(d, name) == { i \in DOMAIN d : lower(d[i].k) = lower(name) }

Least(S) == CHOOSE i \in S : \A j \in S : i <= j

ChosenValue(d, name) ==
    IF ExactAt(d, name) # {}
    THEN d[Least(ExactAt(d, name))].v
    ELSE d[Least(IgnoringCaseAt(d, name))].v

\* the tokens of the original paragraph the simple pass handles, and those
\* left to the spanning pass
SimpleTokens(rs) == { tok \in TokenSet(paragraph_text(rs)) : InOneRun(rs, tok) }

\* C20: a name that is an exact key gets that key's value even when keys
\* equal to it ignoring case come earlier in the mapping; a name with no
\* exact key gets the value of the first key equal to it ignoring case;
\* the simple pass and the spanning pass choose the same value, and the
\* filled text carries it.
C20_KeyOrder ==
    pc = "done" =>
        /\ \A tok \in TokenSet(paragraph_text(runs0)) :
              IgnoringCaseAt(data, tok.name) # {} =>
                  /\ simple_replacement(data, tok.name) = ChosenValue(data, tok.name)
                  /\ across_replacement(data, tok.name) = ChosenValue(data, tok.name)
                  /\ Resolved(data, tok.name) = ChosenValue(data, tok.name)
        /\ Plain(runs0, data) =>
              paragraph_text(runs) = Subst(paragraph_text(runs0), data)

\* an exact key preceded by a key equal ignoring case, used by the simple
\* pass, and a name without exact key served by the first of two keys equal
\* ignoring case, used by the spanning pass
C20_Witness ==
    /\ pc = "done"
    /\ Len(data) = 2
    /\ data[1].k = <<"A", "b">> /\ data[1].v = <<"X">>
    /\ data[2].k = <<"A", "B">> /\ data[2].v = <<"Y">>
    /\ \E tok \in SimpleTokens(runs0) : tok.name = <<"A", "B">>
    /\ \E tok \in SpanningTokens(runs0) : tok.name = <<"a", "b">>
    /\ paragraph_text(runs) = <<"Y", "X">>

(***************************************************************************)
(* Several templates filled one after the other with one mapping, the      *)
(* engine applied to the paragraphs of a template in any order             *)
(***************************************************************************)
MaxTemplatesShared == 2

ShareParagraphs ==
    { <<Run(<<"{", "{", "a">>, 2), Run(<<"}", "}">>, 3)>>,
      <<Run(<<"{", "{", "b", "}", "}", "{", "{", "a", "}", "}">>, 1)>> }

ShareCell == [paragraphs |-> <<<<Run(<<"{", "{", "b">>, 1), Run(<<"}", "}">>, 1)>>>>]

ShareDocuments ==
    { [paragraphs |-> b, tables |-> ts, sections |-> <<[header |-> h, footer |-> None]>>] :
        b \in [1..2 -> ShareParagraphs],
        ts \in { <<>>, <<[rows |-> <<[cells |-> <<ShareCell>>]>>]>> },
        h \in { None, Some([paragraphs |-> <<<<Run(<<"{", "{", "a", "}", "}">>, 3)>>>>]) } }

ShareMappings ==
    { <<[k |-> <<"a">>, v |-> <<"X">>]>>,
      <<[k |-> <<"A">>, v |-> <<>>], [k |-> <<"b">>, v |-> <<"{", "{", "a", "}", "}">>]>> }

InitShare ==
    /\ queue \in SeqsUpTo(ShareDocuments, MaxTemplatesShared) \ {<<>>}
    /\ data \in ShareMappings
    /\ mapping0 = data
    /\ results = <<>>
    /\ pc = "share_next"
    /\ template = <<>>
    /\ doc = <<>>
    /\ found = {}
    /\ warnings = <<>>
    /\ runs = <<>>
    /\ placeholders = <<>>
    /\ remaining = <<>>
    /\ runs0 = <<>>
    /\ mid = <<>>
    /\ pre = [runs |-> <<>>, warnings |-> <<>>]
    /\ data2 = <<>>
    /\ BatchIdle
    /\ FillIdle
    /\ steps = <<>>
    /\ FlattenIdle
    /\ MainIdle
    /\ RunIdle
    /\ ReportIdle

\* the index k removed from the sequence s
Without(s, k) == SubSeq(s, 1, k - 1) \o SubSeq(s, k + 1, Len(s))

\* process_directory lines 110-124: the next template is loaded and handed
\* to fill_template together with config_data
OpenTemplate ==
    /\ pc = "share_next"
    /\ queue # <<>>
    /\ template' = Head(queue)
    /\ doc' = Head(queue)
    /\ todo' = walk_order(Head(queue))
    /\ visited' = <<>>
    /\ queue' = Tail(queue)
    /\ pc' = "share_fill"
    /\ UNCHANGED <<runs, data, warnings, placeholders, remaining, runs0, mid, pre,
                   data2, found, output, results, mapping0, batchVars, flattenVars,
                   mainVars, traceVars, runVars, reportVars>>

\* _replace_in_paragraph(paragraph, data, verbose) on any paragraph of the
\* template that has not been processed yet
FillAnyParagraph ==
    /\ pc = "share_fill"
    /\ \E k \in DOMAIN todo :
          LET l == todo[k]
              filled == replace_in_paragraph(paragraph_at(doc, l), data)
          IN  /\ doc' = with_paragraph(doc, l, filled.runs)
              /\ warnings' = warnings \o filled.warnings
              /\ visited' = Append(visited, l)
              /\ todo' = Without(todo, k)
    /\ UNCHANGED <<runs, data, pc, placeholders, remaining, runs0, mid, pre, data2,
                   template, found, output, queue, results, mapping0, batchVars,
                   flattenVars, mainVars, traceVars, runVars, reportVars>>

\* lines 50-52 and process_directory line 125: the filled document is saved
CloseTemplate ==
    /\ pc = "share_fill"
    /\ todo = <<>>
    /\ results' = Append(results, [template |-> template, output |-> doc,
                                   order |-> visited])
    /\ pc' = "share_next"
    /\ UNCHANGED <<runs, data, warnings, placeholders, remaining, runs0, mid, pre,
                   data2, template, doc, found, todo, visited, output, queue,
                   mapping0, batchVars, flattenVars, mainVars, traceVars, runVars, reportVars>>

NextShare == OpenTemplate \/ FillAnyParagraph \/ CloseTemplate

SpecShare == InitShare /\ [][NextShare]_vars

(***************************************************************************)
(* C21  Independent paragraphs, read-only mapping                          *)
(***************************************************************************)
\* the document d filled alone with the mapping m holds, at every place,
\* the engine's result for the paragraph the template has there
FilledAlone(out, d, m) ==
    /\ AllLocations(out) = AllLocations(d)
    /\ \A l \in AllLocations(d) :
          paragraph_at(out, l) = replace_in_paragraph(paragraph_at(d, l), m).runs

Temporary(filename) ==
    \/ startswith(filename, <<"~", "$">>)
    \/ startswith(filename, <<"~", "W", "R", "L">>)
    \/ startswith(filename, <<".">>)
    \/ endswith(filename, <<".", "t", "m", "p">> \o DotDocx)
    \/ endswith(filename, Filled \o DotDocx)

RootFiles == SelectSeq(files, LAMBDA f : f.dir = "in")

\* C22: find_docx_files returns, sorted by file name, every .docx file of
\* the directory that is no temporary or system file and no _filled.docx
\* output; an ordinary template such as template.docx is returned and
\* process_directory attempts it.
C22_FindDocx ==
    pc \in {"batch_loop", "batch_returned"} =>
        /\ { RootFiles[k].name : k \in DOMAIN RootFiles }
               = { n \in listing.root : endswith(n, DotDocx) /\ ~Temporary(n) }
        /\ \A j, k \in DOMAIN RootFiles :
               j < k => StrLess(RootFiles[j].name, RootFiles[k].name)
        /\ pc = "batch_returned" =>
               \A n \in listing.root :
                   (endswith(n, DotDocx) /\ ~Temporary(n)) =>
                       \E k \in DOMAIN attempts : attempts[k].file = [dir |-> "in", name |-> n]

(***************************************************************************)
(* C23  Validation first, then best effort                                 *)
(***************************************************************************)
ValidationFails(a) ==
    \/ ~a.config_exists
    \/ \E k \in DOMAIN a.templates : a.templates[k].kind = "missing"

\* the output paths of the templates that were filled, in order
FilledOutputs ==
    SelectSeq(all_output_files,
              LAMBDA o : \/ \E k \in DOMAIN written : written[k].to = o
                         \/ \E k \in DOMAIN started : started[k].outcome = "dir_one")

\* C23: when the config path or any template path does not exist, main
\* returns 1 and no template is loaded, filled or saved, not even an
\* existing one listed before the missing one; once validation has passed,
\* a template file that fails to fill does not keep the later templates
\* from being processed, and only the outputs of successful fills are
\* handed to the PDF conversion.
C23_ValidateFirst ==
    /\ ValidationFails(args) =>
          /\ started = <<>> /\ written = <<>> /\ all_output_files = <<>>
          /\ converted = None
          /\ pc = "main_exit" => exit_code = Some(1)
    /\ \A k \in DOMAIN started : started[k].path = args.templates[k]
    /\ pc = "main_exit" =>
          \A k \in DOMAIN started :
              (started[k].outcome = "failed" /\ k < Len(args.templates)) =>
                  Len(started) > k
    /\ (pc = "main_exit" /\ started # <<>>
           /\ \A k \in DOMAIN started : started[k].outcome # "dir_raised") =>
          /\ Len(started) = Len(args.templates)
          /\ exit_code = Some(0)
    /\ Len(written) = Cardinality({ k \in DOMAIN started : started[k].outcome = "filled" })
    /\ Len(all_output_files) =
          Cardinality({ k \in DOMAIN started : started[k].outcome \in {"filled", "dir_one"} })
    /\ converted # None =>
          /\ args.pdf
          /\ converted[1] = all_output_files
          /\ converted[1] = FilledOutputs

\* the first of two template files fails, the second is filled and alone
\* goes to the PDF conversion
C23_Witness ==
    /\ pc = "main_exit"
    /\ exit_code = Some(0)
    /\ Len(started) = 2
    /\ started[1].outcome = "failed"
    /\ started[2].outcome = "filled"
    /\ converted = Some(<<written[1].to>>)
    /\ written[1].template = args.templates[2]

(***************************************************************************)
(* C24  Frame condition of the engine                                      *)
(***************************************************************************)
SpanningRan == \E k \in DOMAIN steps : steps[k] = "spanning"

\* C24: a paragraph whose full text holds no placeholder token is left as it
\* was, runs, texts and formatting, and nothing is printed; when the
\* spanning pass runs and its substitution leaves the full text unchanged,
\* the runs, their texts and their formatting are as the simple pass left
\* them.
C24_Frame ==
    /\ (pc = "done" /\ ~HasToken(paragraph_text(runs0))) =>
          /\ runs = runs0
          /\ warnings = <<>>
          /\ steps = <<"scan">>
    /\ (pc = "done" /\ SpanningRan
           /\ across_new_text(paragraph_text(mid), remaining, data) = paragraph_text(mid)) =>
          /\ runs = mid
          /\ SameFormats(runs, mid)
    /\ (pc = "done" /\ SpanningRan
           /\ \A tok \in TokenSet(paragraph_text(mid)) : ~Resolvable(data, tok.name)) =>
          runs = mid

\* the simple pass filled one run, the spanning pass then found only an
\* unresolved placeholder split over two differently formatted runs
C24_Witness ==
    /\ pc = "done"
    /\ SpanningRan
    /\ mid # runs0
    /\ Len(mid) = 3
    /\ SpanningTokens(mid) # {}
    /\ \A tok \in TokenSet(paragraph_text(mid)) : ~Resolvable(data, tok.name)
    /\ mid[2].fmt # mid[3].fmt
    /\ runs = mid

(***************************************************************************)
(* main --check-placeholders on one template, and the fill of the same     *)
(* template with the same configuration                                    *)
(***************************************************************************)
\* the template filled by fill_template: the engine on every paragraph in
\* the order of the walk
RECURSIVE fill_paragraphs(_, _, _)
fill_paragraphs(d, order, m) ==
    IF order = <<>>
    THEN [doc |-> d, warnings |-> <<>>]
    ELSE LET filled == replace_in_paragraph(paragraph_at(d, Head(order)), m)
             rest   == fill_paragraphs(with_paragraph(d, Head(order), filled.runs),
                                       Tail(order), m)
         IN  [doc |-> rest.doc, warnings |-> filled.warnings \o rest.warnings]

InitReport ==
    /\ template \in ShareDocuments
    /\ data \in Mappings
    /\ pc = "report_start"
    /\ doc = <<>>
    /\ found = {}
    /\ warnings = <<>>
    /\ runs = <<>>
    /\ placeholders = <<>>
    /\ remaining = <<>>
    /\ runs0 = <<>>
    /\ mid = <<>>
    /\ pre = [runs |-> <<>>, warnings |-> <<>>]
    /\ data2 = <<>>
    /\ BatchIdle
    /\ FillIdle
    /\ steps = <<>>
    /\ FlattenIdle
    /\ MainIdle
    /\ ShareIdle
    /\ RunIdle
    /\ ReportIdle

\* docfill.py lines 141-169: placeholders = processor.get_placeholders(),
\* config_keys = set(config_data.keys()), the two set differences
CheckPlaceholders ==
    /\ pc = "report_start"
    /\ found' = get_placeholders(template)
    /\ missing' = found' \ KeysOf(data)
    /\ unused' = KeysOf(data) \ found'
    /\ pc' = "report_printed"
    /\ UNCHANGED <<runs, data, warnings, placeholders, remaining, runs0, mid, pre,
                   data2, template, doc, batchVars, fillVars, flattenVars, mainVars,
                   traceVars, shareVars, runVars>>

\* docfill.py lines 172-175, run without --check-placeholders:
\* processor.fill_template(config_data, output_path, args.verbose)
FillAfterReport ==
    /\ pc = "report_printed"
    /\ LET filled == fill_paragraphs(template, walk_order(template), data)
       IN  /\ doc' = filled.doc
           /\ warnings' = filled.warnings
    /\ pc' = "report_filled"
    /\ UNCHANGED <<runs, data, placeholders, remaining, runs0, mid, pre, data2,
                   template, found, batchVars, fillVars, flattenVars, mainVars,
                   traceVars, shareVars, runVars, reportVars>>

NextReport == CheckPlaceholders \/ FillAfterReport

SpecReport == InitReport /\ [][NextReport]_vars

(***************************************************************************)
(* C25  The report agrees with the fill                                    *)
(***************************************************************************)
\* the key whose value the fill inserts for the name
KeyFor(d, name) ==
    IF name \in KeysOf(d)
    THEN name
    ELSE d[Least(IgnoringCaseAt(d, name))].k

KeyUsed(k) == \E n \in found : Resolvable(data, n) /\ KeyFor(data, n) = k

\* C25: a placeholder is listed as missing a config value exactly when the
\* fill leaves it unresolved, with a warning; a config key is listed as
\* unused exactly when the fill uses its value for no placeholder of the
\* template.
C25_ReportAgrees ==
    pc = "report_filled" =>
        /\ \A n \in found : n \in missing <=> Warned(n)
        /\ \A k \in KeysOf(data) : k \in unused <=> ~KeyUsed(k)

(***************************************************************************)
(* C26  Distinct templates, distinct outputs                               *)
(***************************************************************************)
\* C26: in one process_directory call, whatever recursive and
\* add_filled_suffix are, distinct template files get distinct output
\* paths: no output is overwritten by that of a later template and the
\* returned list holds no path twice.
C26_DistinctOutputs ==
    pc = "batch_returned" =>
        /\ \A j, k \in DOMAIN files :
               files[j] # files[k] =>
                   out_file("out", files[j], add_filled_suffix)
                       # out_file("out", files[k], add_filled_suffix)
        /\ \A j, k \in DOMAIN outputs : j # k => outputs[j] # outputs[k]

====
